---- MODULE Spec2Model ----
(***************************************************************************)
(* DualShellCommander: the self-update pipeline of src/network_update.c.   *)
(*                                                                         *)
(*   network_update_thread  - the update checker (descriptor download,     *)
(*                            version compare, confirmation prompt)        *)
(*   installUpdater         - stages the updater companion package         *)
(*   update_extract_thread  - the extraction supervisor                    *)
(*                                                                         *)
(* A 32-bit version is kept as the pair <<hi, lo>> of its 16-bit halves    *)
(* (hi = major * 256 + minor), so that the unsigned comparison of          *)
(* line 56 is the lexicographic one and no value leaves TLC's integers.    *)
(***************************************************************************)
EXTENDS Integers, Sequences, FiniteSets, TLC

VARIABLES
  \* ---- shared state
  dialogStep,      \* the Dialog Step (getDialogStep / setDialogStep)
  \* ---- network_update_thread
  cpc,             \* position of network_update_thread
  remote,          \* the version the remote descriptor holds
  running,         \* DUALSHELLCOMMANDER_VERSION of the running build
  version,         \* local `version` (line 49)
  version_string,  \* local `version_string` as a C string (line 60)
  read54,          \* the step value read at line 54 ("unread" before)
  read70,          \* the step value that ended the wait loop of line 70
  read75,          \* the step value read at line 75
  stepAtWrite,     \* the step value overwritten by line 67 ("unwritten" before)
  clog,            \* calls made by network_update_thread, in order
  sizeOut,         \* <<return value, size>> of getDownloadFileSize (<<>> before)
  descRes,         \* what downloadFile returned for the descriptor (<<>> before)
  \* ---- update_extract_thread
  epc,             \* position of update_extract_thread
  elog,            \* calls made by update_extract_thread, in order
  powerLockCount,  \* the power lock's hold count
  thid,            \* local `thid` (line 109)
  res,             \* local `res` (line 127): <<>> before, <<r>> once set
  extractRes,      \* what extractArchivePath returned (<<>> before)
  archInfo,        \* <<size, folders, files>> of getArchivePathInfo
  value,           \* local `value`, the progress counter (line 146)
  paramMax,        \* param.max (line 150)
  workerMax,       \* the maximum handed to createStartUpdateThread (line 143)
  worker,          \* the progress-reporting worker: "none", "running",
                   \* "pushing" (between its read and its push), "ended"
  workerSeen,      \* the counter value the worker read last
  workerReadAfterReturn, \* the worker read `value` after the owner returned
  bar,             \* the percentage shown on the progress bar
  openRes,         \* what archiveOpen returned (<<>> before)
  headRes,         \* what the makeHeadBin of line 166 returned (<<>> before)
  dialogOpen,      \* the wait/progress dialog is running
  errorShown,      \* argument of the last errorDialog call (<<>> before)
  pkgFile,         \* the downloaded package file exists
  pkgDir,          \* the files of PACKAGE_DIR
  promoted,        \* promoteApp calls so far (0 or 1)
  \* ---- the version formatting on its own
  fmajor, fminor, fout, fdone,
  \* ---- installUpdater called again and again
  installRuns,     \* installUpdater calls so far
  dirAtStart,      \* PACKAGE_DIR before the first call
  dirAfterFirst,   \* PACKAGE_DIR after the first call (<<>> before)
  ipc,             \* the call installUpdater is at ("idle" outside of it)
  ilog             \* the calls installUpdater made, in order

vars == <<dialogStep, cpc, remote, running, version, version_string, read54,
          read70, read75, stepAtWrite, clog, sizeOut, descRes, epc, elog, powerLockCount, thid,
          res, extractRes, archInfo, value, paramMax, workerMax, worker,
          workerReadAfterReturn, workerSeen, bar, openRes, headRes, dialogOpen,
          errorShown, pkgFile, pkgDir, promoted, fmajor, fminor, fout, fdone,
          installRuns, dirAtStart, dirAfterFirst, ipc, ilog>>

checkerVars == <<cpc, remote, running, version, version_string, read54,
                 read70, read75, stepAtWrite, clog, sizeOut, descRes>>

extractVars == <<epc, elog, powerLockCount, thid, res, extractRes, archInfo,
                 value, paramMax, workerMax, worker, workerReadAfterReturn, workerSeen,
                 bar, openRes, headRes, dialogOpen, errorShown, pkgFile,
                 pkgDir, promoted>>

formatVars == <<fmajor, fminor, fout, fdone>>

installVars == <<installRuns, dirAtStart, dirAfterFirst, ipc, ilog>>

----------------------------------------------------------------------------
(* Dialog State Store *)

DialogSteps == {"NONE", "UPDATE_QUESTION", "DOWNLOADED", "EXTRACTED",
                "CANCELED", "OTHER"}

----------------------------------------------------------------------------
(* Versions *)

ByteMax == 255

Ver(major, minor, low) == <<major * 256 + minor, low>>

Major(v) == (v[1] \div 256) % (ByteMax + 1)

Minor(v) == v[1] % (ByteMax + 1)

VersionZero == <<0, 0>>

\* remote descriptors tried by the model
RemoteVersions == { Ver(1, 32, 0), Ver(1, 5, 0), Ver(1, 0, 0), Ver(1, 0, 1),
                    Ver(16, 5, 0), Ver(0, 255, 65535), Ver(255, 255, 65535),
                    Ver(128, 0, 0) }

\* running builds tried by the model
RunningVersions == { Ver(1, 0, 0), Ver(1, 32, 0) }

VersionGreaterOrEqual(v, r) == v[1] > r[1] \/ (v[1] = r[1] /\ v[2] >= r[2])

\* line 56: version > DUALSHELLCOMMANDER_VERSION, unsigned
VersionGreater(v, r) == v[1] > r[1] \/ (v[1] = r[1] /\ v[2] > r[2])

----------------------------------------------------------------------------
(* Version string, lines 57-63 *)

NUL == "\\0"

HexChars == <<"0", "1", "2", "3", "4", "5", "6", "7",
              "8", "9", "A", "B", "C", "D", "E", "F">>

HexDigit(n) == HexChars[n + 1]

\* %X
HexNoPad(n) == IF n < 16 THEN <<HexDigit(n)>>
               ELSE <<HexDigit(n \div 16), HexDigit(n % 16)>>

\* %02X
HexTwo(n) == <<HexDigit(n \div 16), HexDigit(n % 16)>>

\* sprintf(version_string, "%X.%02X", major, minor): the buffer with its NUL
Sprintf(major, minor) == HexNoPad(major) \o <<".">> \o HexTwo(minor) \o <<NUL>>

\* if (version_string[3] == '0') version_string[3] = '\0';  (C index 3)
CutAtThree(buf) == IF buf[4] = "0" THEN [buf EXCEPT ![4] = NUL] ELSE buf

RECURSIVE CString(_)
\* the C string a buffer holds: its characters before the first NUL
CString(buf) == IF buf = <<>> \/ Head(buf) = NUL THEN <<>>
                ELSE <<Head(buf)>> \o CString(Tail(buf))

VersionString(major, minor) == CString(CutAtThree(Sprintf(major, minor)))

----------------------------------------------------------------------------
(* network_update_thread, lines 41-87 *)

\* what getDownloadFileSize can deliver: <<return value, size>>
SizeQueryOutcomes == { <<-1, 0>>, <<-1, 4>>, <<0, 0>>, <<0, 4>>, <<0, 8>> }

\* what downloadFile can return
DownloadResults == { -1, 0, 4 }

\* line 43: getDownloadFileSize(...) >= 0 && size == sizeof(uint32_t)
SizeQueryUsable(ret, size) == ret >= 0 /\ size = 4

\* an empty download (0) taken for a descriptor
DescriptorDownloadFailedStrict(r) == r < 0

\* line 45: if (res <= 0) goto EXIT
DescriptorDownloadFailed(r) == r <= 0

\* a check that only refuses to interrupt its own prompt
NoDialogRunningLoose(s) == s # "UPDATE_QUESTION"

\* line 54: getDialogStep() == DIALOG_STEP_NONE
NoDialogRunning(s) == s = "NONE"

\* an offer made for an equal version too
UpdateAvailableOrEqual(v, r) == VersionGreaterOrEqual(v, r)

\* line 56: version > DUALSHELLCOMMANDER_VERSION
UpdateAvailable(v, r) == VersionGreater(v, r)

\* a poll loop that goes on while the step differs from UPDATE_QUESTION
StillAskingInverted(s) == s # "UPDATE_QUESTION"

\* line 70: getDialogStep() == DIALOG_STEP_UPDATE_QUESTION
StillAsking(s) == s = "UPDATE_QUESTION"

\* a test for the wrong step: CANCELED taken for the refusal
DeclinedWrongStep(s) == s = "CANCELED"

\* line 75: getDialogStep() == DIALOG_STEP_NONE
Declined(s) == s = "NONE"

\* lines 42-43
ChkSizeQuery ==
  /\ cpc = "size"
  /\ \E o \in SizeQueryOutcomes :
       /\ sizeOut' = o
       /\ cpc' = IF SizeQueryUsable(o[1], o[2]) THEN "download" ELSE "exit"
       /\ clog' = Append(clog, "getDownloadFileSize")
  /\ UNCHANGED <<dialogStep, descRes, remote, running, version, version_string, read54,
                 read70, read75, stepAtWrite>>
  /\ UNCHANGED <<extractVars, formatVars, installVars>>

\* lines 44-46
ChkDownloadDescriptor ==
  /\ cpc = "download"
  /\ \E r \in DownloadResults :
       /\ descRes' = <<r>>
       /\ cpc' = IF DescriptorDownloadFailed(r) THEN "exit" ELSE "read"
       /\ clog' = Append(clog, "downloadFile")
  /\ UNCHANGED <<dialogStep, sizeOut, remote, running, version, version_string, read54,
                 read70, read75, stepAtWrite>>
  /\ UNCHANGED <<extractVars, formatVars, installVars>>

\* lines 48-51: version = 0; ReadFile into it (left 0 when the read fails);
\* sceIoRemove of the descriptor either way
ChkReadVersion ==
  /\ cpc = "read"
  /\ \E ok \in BOOLEAN :
       /\ version' = IF ok THEN remote ELSE VersionZero
       /\ clog' = clog \o <<IF ok THEN "ReadFile" ELSE "ReadFile failed",
                            "sceIoRemove">>
  /\ cpc' = "check"
  /\ UNCHANGED <<dialogStep, sizeOut, descRes, remote, running, version_string, read54, read70,
                 read75, stepAtWrite>>
  /\ UNCHANGED <<extractVars, formatVars, installVars>>

\* line 54
ChkReadStep ==
  /\ cpc = "check"
  /\ read54' = dialogStep
  /\ clog' = Append(clog, "getDialogStep")
  /\ cpc' = IF NoDialogRunning(dialogStep) THEN "compare" ELSE "exit"
  /\ UNCHANGED <<dialogStep, sizeOut, descRes, remote, running, version, version_string, read70,
                 read75, stepAtWrite>>
  /\ UNCHANGED <<extractVars, formatVars, installVars>>

\* lines 56-63
ChkCompare ==
  /\ cpc = "compare"
  /\ IF UpdateAvailable(version, running)
       THEN /\ version_string' = VersionString(Major(version), Minor(version))
            /\ cpc' = "prompt"
       ELSE /\ version_string' = version_string
            /\ cpc' = "exit"
  /\ UNCHANGED <<dialogStep, sizeOut, descRes, remote, running, version, read54, read70, read75,
                 stepAtWrite, clog>>
  /\ UNCHANGED <<extractVars, formatVars, installVars>>

\* line 66
ChkInitMessageDialog ==
  /\ cpc = "prompt"
  /\ clog' = Append(clog, "initMessageDialog")
  /\ cpc' = "set_step"
  /\ UNCHANGED <<dialogStep, sizeOut, descRes, remote, running, version, version_string, read54,
                 read70, read75, stepAtWrite>>
  /\ UNCHANGED <<extractVars, formatVars, installVars>>

\* line 67
ChkSetStep ==
  /\ cpc = "set_step"
  /\ stepAtWrite' = dialogStep
  /\ dialogStep' = "UPDATE_QUESTION"
  /\ clog' = Append(clog, "setDialogStep")
  /\ cpc' = "wait"
  /\ UNCHANGED <<sizeOut, descRes, remote, running, version, version_string, read54, read70,
                 read75>>
  /\ UNCHANGED <<extractVars, formatVars, installVars>>

\* lines 70-72: one evaluation of the loop condition (and the delay)
ChkPoll ==
  /\ cpc = "wait"
  /\ IF StillAsking(dialogStep)
       THEN UNCHANGED <<cpc, read70>>
       ELSE /\ read70' = dialogStep
            /\ cpc' = "test_no"
  /\ UNCHANGED <<dialogStep, sizeOut, descRes, remote, running, version, version_string, read54,
                 read75, stepAtWrite, clog>>
  /\ UNCHANGED <<extractVars, formatVars, installVars>>

\* lines 75-77
ChkTestNo ==
  /\ cpc = "test_no"
  /\ read75' = dialogStep
  /\ cpc' = IF Declined(dialogStep) THEN "exit" ELSE "download_pkg"
  /\ UNCHANGED <<dialogStep, sizeOut, descRes, remote, running, version, version_string, read54,
                 read70, stepAtWrite, clog>>
  /\ UNCHANGED <<extractVars, formatVars, installVars>>

\* line 80: downloadFileProcess(url, file, DIALOG_STEP_DOWNLOADED) and return
ChkDownloadPackage ==
  /\ cpc = "download_pkg"
  /\ \E ok \in BOOLEAN :
       /\ dialogStep' = IF ok THEN "DOWNLOADED" ELSE dialogStep
       /\ clog' = Append(clog, IF ok THEN "downloadFileProcess"
                                     ELSE "downloadFileProcess failed")
  /\ cpc' = "done"
  /\ UNCHANGED <<sizeOut, descRes, remote, running, version, version_string, read54, read70,
                 read75, stepAtWrite>>
  /\ UNCHANGED <<extractVars, formatVars, installVars>>

\* lines 85-86
ChkExit ==
  /\ cpc = "exit"
  /\ clog' = Append(clog, "sceKernelExitDeleteThread")
  /\ cpc' = "done"
  /\ UNCHANGED <<dialogStep, sizeOut, descRes, remote, running, version, version_string, read54,
                 read70, read75, stepAtWrite>>
  /\ UNCHANGED <<extractVars, formatVars, installVars>>

\* another worker (the UI thread) writes the Dialog Step
OtherSetStep ==
  /\ \E s \in DialogSteps : dialogStep' = s
  /\ UNCHANGED <<checkerVars, extractVars, formatVars, installVars>>

----------------------------------------------------------------------------
(* installUpdater, lines 89-106: PACKAGE_DIR as the set of its files *)

\* what removePath can return: an error, or 1 when everything is removed
RemovePathResults == { -1, 1 }

\* what sceIoMkdir can return
MkdirResults == { -1, 0 }

\* what WriteFile can return: an error, or the count of bytes written
WriteFileResults == { -1, 1 }

\* what makeHeadBin can return
MakeHeadBinResults == { -1, 0 }

\* removePath(PACKAGE_DIR, NULL) returning r: the directory goes with all it
\* holds, or the call fails and all of it stays
RemovePath(dir, r) == IF r < 0 THEN dir ELSE {}

\* sceIoMkdir(path, 0777) returning r: nothing changes when the call fails
\* or the path exists
Mkdir(dir, path, r) ==
  IF r < 0 \/ \E e \in dir : e[1] = path THEN dir
  ELSE dir \cup {<<path, "dir">>}

\* WriteFile(path, data, size) returning r: the file is created or replaced,
\* or the call fails and nothing is written
WriteFile(dir, path, data, r) ==
  IF r < 0 THEN dir
  ELSE {e \in dir : e[1] # path} \cup {<<path, data>>}

\* makeHeadBin() returning r: the manifest of the staged package is written,
\* or the call fails and nothing is written
MakeHeadBin(dir, r) ==
  IF r < 0 THEN dir
  ELSE {e \in dir : e[1] # "head.bin"} \cup {<<"head.bin", "head">>}

\* the paths of the updater companion files
UpdaterFiles == {"eboot.bin", "sce_sys/param.sfo", "head.bin"}

\* line 91: removePath(PACKAGE_DIR, NULL); the result is discarded
InstRemovePath ==
  /\ ipc = "removePath"
  /\ \E r \in RemovePathResults : pkgDir' = RemovePath(pkgDir, r)
  /\ ilog' = Append(ilog, "removePath")
  /\ ipc' = "mkdir"
  /\ UNCHANGED <<epc, elog, powerLockCount, thid, res, extractRes, archInfo,
                 value, paramMax, workerMax, worker, workerReadAfterReturn, workerSeen,
                 bar, openRes, headRes, dialogOpen, errorShown, pkgFile,
                 promoted>>
  /\ UNCHANGED <<dialogStep, checkerVars, formatVars, installRuns,
                 dirAtStart, dirAfterFirst>>

\* line 92: sceIoMkdir(PACKAGE_DIR, 0777); the directory is there again and
\* holds nothing
InstMkdir ==
  /\ ipc = "mkdir"
  /\ ilog' = Append(ilog, "sceIoMkdir")
  /\ ipc' = "mkdir_sce_sys"
  /\ UNCHANGED <<dialogStep, checkerVars, extractVars, formatVars,
                 installRuns, dirAtStart, dirAfterFirst>>

\* line 95: sceIoMkdir("ux0:data/pkg/sce_sys", 0777)
InstMkdirSceSys ==
  /\ ipc = "mkdir_sce_sys"
  /\ \E r \in MkdirResults : pkgDir' = Mkdir(pkgDir, "sce_sys", r)
  /\ ilog' = Append(ilog, "sceIoMkdir")
  /\ ipc' = "write_eboot"
  /\ UNCHANGED <<epc, elog, powerLockCount, thid, res, extractRes, archInfo,
                 value, paramMax, workerMax, worker, workerReadAfterReturn, workerSeen,
                 bar, openRes, headRes, dialogOpen, errorShown, pkgFile,
                 promoted>>
  /\ UNCHANGED <<dialogStep, checkerVars, formatVars, installRuns,
                 dirAtStart, dirAfterFirst>>

\* line 98: WriteFile("ux0:data/pkg/eboot.bin", ...)
InstWriteEboot ==
  /\ ipc = "write_eboot"
  /\ \E r \in WriteFileResults : pkgDir' = WriteFile(pkgDir, "eboot.bin", "updater_eboot", r)
  /\ ilog' = Append(ilog, "WriteFile")
  /\ ipc' = "write_param"
  /\ UNCHANGED <<epc, elog, powerLockCount, thid, res, extractRes, archInfo,
                 value, paramMax, workerMax, worker, workerReadAfterReturn, workerSeen,
                 bar, openRes, headRes, dialogOpen, errorShown, pkgFile,
                 promoted>>
  /\ UNCHANGED <<dialogStep, checkerVars, formatVars, installRuns,
                 dirAtStart, dirAfterFirst>>

\* line 99: WriteFile("ux0:data/pkg/sce_sys/param.sfo", ...)
InstWriteParam ==
  /\ ipc = "write_param"
  /\ \E r \in WriteFileResults : pkgDir' = WriteFile(pkgDir, "sce_sys/param.sfo", "updater_param", r)
  /\ ilog' = Append(ilog, "WriteFile")
  /\ ipc' = "makeHeadBin"
  /\ UNCHANGED <<epc, elog, powerLockCount, thid, res, extractRes, archInfo,
                 value, paramMax, workerMax, worker, workerReadAfterReturn, workerSeen,
                 bar, openRes, headRes, dialogOpen, errorShown, pkgFile,
                 promoted>>
  /\ UNCHANGED <<dialogStep, checkerVars, formatVars, installRuns,
                 dirAtStart, dirAfterFirst>>

\* line 102: makeHeadBin(); its result is discarded, so a failure that
\* writes no head.bin goes on to the promotion all the same
InstMakeHeadBin ==
  /\ ipc = "makeHeadBin"
  /\ \E r \in MakeHeadBinResults : pkgDir' = MakeHeadBin(pkgDir, r)
  /\ ilog' = Append(ilog, "makeHeadBin")
  /\ ipc' = "promoteApp"
  /\ UNCHANGED <<epc, elog, powerLockCount, thid, res, extractRes, archInfo,
                 value, paramMax, workerMax, worker, workerReadAfterReturn, workerSeen,
                 bar, openRes, headRes, dialogOpen, errorShown, pkgFile,
                 promoted>>
  /\ UNCHANGED <<dialogStep, checkerVars, formatVars, installRuns,
                 dirAtStart, dirAfterFirst>>

\* line 105: promoteApp(PACKAGE_DIR)
InstPromoteApp ==
  /\ ipc = "promoteApp"
  /\ promoted' = promoted + 1
  /\ ilog' = Append(ilog, "promoteApp")
  /\ ipc' = "return"
  /\ UNCHANGED <<epc, elog, powerLockCount, thid, res, extractRes, archInfo,
                 value, paramMax, workerMax, worker, workerReadAfterReturn, workerSeen,
                 bar, openRes, headRes, dialogOpen, errorShown, pkgFile,
                 pkgDir>>
  /\ UNCHANGED <<dialogStep, checkerVars, formatVars, installRuns,
                 dirAtStart, dirAfterFirst>>

\* lines 89-106, call by call
InstallUpdaterStep ==
  \/ InstRemovePath
  \/ InstMkdir
  \/ InstMkdirSceSys
  \/ InstWriteEboot
  \/ InstWriteParam
  \/ InstMakeHeadBin
  \/ InstPromoteApp

----------------------------------------------------------------------------
(* update_extract_thread, lines 108-190 *)

DIRECTORY_SIZE == 100

ChunkSize == 400

\* unsigned integers of the C types are kept as 16-bit limbs, the most
\* significant first: uint32_t as <<hi, lo>>, uint64_t as four limbs
LimbBase == 65536

U32(n) == <<n \div LimbBase, n % LimbBase>>

U64(n) == <<0, 0, n \div LimbBase, n % LimbBase>>

U64Max == <<LimbBase - 1, LimbBase - 1, LimbBase - 1, LimbBase - 1>>

\* a * d in unsigned 32 bits: the carry out of the high limb is lost
Mul32(a, d) ==
  LET lo == a[2] * d
      hi == a[1] * d + lo \div LimbBase
  IN  <<hi % LimbBase, lo % LimbBase>>

\* s + p in unsigned 64 bits, p widened from 32 bits: the carry out of the
\* highest limb is lost
Add64(s, p) ==
  LET l0 == s[4] + p[2]
      l1 == s[3] + p[1] + l0 \div LimbBase
      l2 == s[2] + l1 \div LimbBase
      l3 == s[1] + l2 \div LimbBase
  IN  <<l3 % LimbBase, l2 % LimbBase, l1 % LimbBase, l0 % LimbBase>>

\* the number a uint64_t holds
Nat64(u) == ((u[1] * LimbBase + u[2]) * LimbBase + u[3]) * LimbBase + u[4]

\* <<size, folders, files>> as uint64_t, uint32_t, uint32_t
Info(size, folders, files) == <<U64(size), U32(folders), U32(files)>>

\* what getArchivePathInfo can report: an empty archive, the spec's example,
\* a folder count whose product with DIRECTORY_SIZE passes 2^32, and a size
\* at the top of uint64_t
ArchiveInfos == { Info(0, 0, 0), Info(1000, 2, 5),
                  Info(1000, 42949673, 0), <<U64Max, U32(1), U32(0)>> }

ArchiveOpenResults == { -1, 0, 1 }

\* what createStartUpdateThread can return
ThreadIds == { -1, 0 }

\* contents PACKAGE_DIR may hold when the thread starts
PackageDirsAtStart == { {}, {<<"leftover", "stale">>} }

Min(a, b) == IF a < b THEN a ELSE b

\* a check that lets the error -1 through
ArchiveOpenFailedLoose(r) == r < -1

\* line 128: if (res < 0)
ArchiveOpenFailed(r) == r < 0

\* a return in place of the goto
AfterOpenFailureReturns == "return"

\* line 131: goto EXIT
AfterOpenFailure == "exit"

\* line 143: size + folders * DIRECTORY_SIZE, the product taken in 32 bits
\* (uint32_t by int) and the sum in 64 bits (uint64_t)
UpdateThreadMax(info) == Add64(info[1], Mul32(info[2], DIRECTORY_SIZE))

\* a maximum that weighs the files like the directories
ParamMaxWithFiles(info) ==
  Add64(Add64(info[1], Mul32(info[2], DIRECTORY_SIZE)),
        Mul32(info[3], DIRECTORY_SIZE))

\* line 150: size + folders * DIRECTORY_SIZE, the product taken in 32 bits
\* (uint32_t by int) and the sum in 64 bits (uint64_t)
ParamMax(info) == Add64(info[1], Mul32(info[2], DIRECTORY_SIZE))

\* a cancelled extraction (0) taken for a success
ExtractFailedStrict(r) == r < 0

\* line 155: if (res <= 0)
ExtractFailed(r) == r <= 0

\* a check that lets the error -1 through
MakeHeadBinFailedLoose(r) == r < -1

\* line 167: if (res < 0)
MakeHeadBinFailed(r) == r < 0

\* a wait that is skipped for the thread id 0
MustWaitThreadStrict(t) == t > 0

\* line 183: if (thid >= 0)
MustWaitThread(t) == t >= 0

\* a failure branch that leaves the progress dialog as it is
CloseWaitDialogNoop(open) == open

\* lines 128, 156, 168: closeWaitDialog() closes the progress dialog
CloseWaitDialog(open) == FALSE

\* line 112
ExtPowerLock ==
  /\ epc = "start"
  /\ powerLockCount' = powerLockCount + 1
  /\ elog' = Append(elog, "powerLock")
  /\ epc' = "bar0"
  /\ UNCHANGED <<thid, res, extractRes, archInfo, value, paramMax, workerMax,
                 worker, workerReadAfterReturn, workerSeen, bar, openRes, headRes,
                 dialogOpen, errorShown, pkgFile, pkgDir, promoted>>
  /\ UNCHANGED <<dialogStep, checkerVars, formatVars, installVars>>

\* lines 115-116
ExtBarZero ==
  /\ epc = "bar0"
  /\ bar' = 0
  /\ elog' = Append(elog, "ProgressBarSetValue(0)")
  /\ epc' = "install"
  /\ UNCHANGED <<powerLockCount, thid, res, extractRes, archInfo, value,
                 paramMax, workerMax, worker, workerReadAfterReturn, workerSeen, openRes,
                 headRes, dialogOpen, errorShown, pkgFile, pkgDir, promoted>>
  /\ UNCHANGED <<dialogStep, checkerVars, formatVars, installVars>>

\* line 119: installUpdater(), lines 89-106
ExtInstallUpdater ==
  /\ epc = "install"
  /\ ipc = "idle"
  /\ ipc' = "removePath"
  /\ elog' = Append(elog, "installUpdater")
  /\ epc' = "installing"
  /\ UNCHANGED <<powerLockCount, thid, res, extractRes, archInfo, value,
                 paramMax, workerMax, worker, workerReadAfterReturn, workerSeen, bar,
                 openRes, headRes, dialogOpen, errorShown, pkgFile, pkgDir,
                 promoted>>
  /\ UNCHANGED <<dialogStep, checkerVars, formatVars, installRuns,
                 dirAtStart, dirAfterFirst, ilog>>

\* line 119: installUpdater returns
ExtInstallReturn ==
  /\ epc = "installing"
  /\ ipc = "return"
  /\ ipc' = "idle"
  /\ epc' = "clear"
  /\ UNCHANGED <<elog, powerLockCount, thid, res, extractRes, archInfo,
                 value, paramMax, workerMax, worker, workerReadAfterReturn, workerSeen,
                 bar, openRes, headRes, dialogOpen, errorShown, pkgFile,
                 pkgDir, promoted>>
  /\ UNCHANGED <<dialogStep, checkerVars, formatVars, installRuns,
                 dirAtStart, dirAfterFirst, ilog>>

\* line 122: removePath(PACKAGE_DIR, NULL); the result is discarded
ExtRemovePath ==
  /\ epc = "clear"
  /\ \E r \in RemovePathResults : pkgDir' = RemovePath(pkgDir, r)
  /\ elog' = Append(elog, "removePath")
  /\ epc' = "mkdir"
  /\ UNCHANGED <<powerLockCount, thid, res, extractRes, archInfo, value,
                 paramMax, workerMax, worker, workerReadAfterReturn, workerSeen, bar,
                 openRes, headRes, dialogOpen, errorShown, pkgFile, promoted>>
  /\ UNCHANGED <<dialogStep, checkerVars, formatVars, installRuns,
                 dirAtStart, dirAfterFirst, ipc, ilog>>

\* line 123: sceIoMkdir(PACKAGE_DIR, 0777); the directory is there again
\* and holds nothing
ExtMkdir ==
  /\ epc = "mkdir"
  /\ epc' = "open"
  /\ UNCHANGED <<elog, pkgDir>>
  /\ UNCHANGED <<powerLockCount, thid, res, extractRes, archInfo, value,
                 paramMax, workerMax, worker, workerReadAfterReturn, workerSeen, bar,
                 openRes, headRes, dialogOpen, errorShown, pkgFile, promoted>>
  /\ UNCHANGED <<dialogStep, checkerVars, formatVars, installVars>>

\* lines 126-128
ExtArchiveOpen ==
  /\ epc = "open"
  /\ \E r \in ArchiveOpenResults :
       /\ res' = <<r>>
       /\ openRes' = <<r>>
       /\ epc' = IF ArchiveOpenFailed(r) THEN "ofail_close" ELSE "info"
  /\ elog' = Append(elog, "archiveOpen")
  /\ UNCHANGED <<powerLockCount, thid, extractRes, archInfo, value, paramMax,
                 workerMax, worker, workerReadAfterReturn, workerSeen, bar, headRes,
                 dialogOpen, errorShown, pkgFile, pkgDir, promoted>>
  /\ UNCHANGED <<dialogStep, checkerVars, formatVars, installVars>>

\* line 129
ExtOpenFailClose ==
  /\ epc = "ofail_close"
  /\ dialogOpen' = CloseWaitDialog(dialogOpen)
  /\ elog' = Append(elog, "closeWaitDialog")
  /\ epc' = "ofail_error"
  /\ UNCHANGED <<powerLockCount, thid, res, extractRes, archInfo, value,
                 paramMax, workerMax, worker, workerReadAfterReturn, workerSeen, bar,
                 openRes, headRes, errorShown, pkgFile, pkgDir, promoted>>
  /\ UNCHANGED <<dialogStep, checkerVars, formatVars, installVars>>

\* lines 130-131
ExtOpenFailError ==
  /\ epc = "ofail_error"
  /\ errorShown' = res
  /\ elog' = Append(elog, "errorDialog")
  /\ epc' = AfterOpenFailure
  /\ UNCHANGED <<powerLockCount, thid, res, extractRes, archInfo, value,
                 paramMax, workerMax, worker, workerReadAfterReturn, workerSeen, bar,
                 openRes, headRes, dialogOpen, pkgFile, pkgDir, promoted>>
  /\ UNCHANGED <<dialogStep, checkerVars, formatVars, installVars>>

\* lines 135-140
ExtGetArchivePathInfo ==
  /\ epc = "info"
  /\ \E i \in ArchiveInfos : archInfo' = i
  /\ elog' = Append(elog, "getArchivePathInfo")
  /\ epc' = "spawn"
  /\ UNCHANGED <<powerLockCount, thid, res, extractRes, value, paramMax,
                 workerMax, worker, workerReadAfterReturn, workerSeen, bar, openRes,
                 headRes, dialogOpen, errorShown, pkgFile, pkgDir, promoted>>
  /\ UNCHANGED <<dialogStep, checkerVars, formatVars, installVars>>

\* line 143: thid = createStartUpdateThread(size + folders * DIRECTORY_SIZE, 1)
ExtCreateStartUpdateThread ==
  /\ epc = "spawn"
  /\ \E t \in ThreadIds :
       /\ thid' = t
       /\ worker' = IF t >= 0 THEN "running" ELSE "none"
  /\ workerMax' = Nat64(UpdateThreadMax(archInfo))
  /\ elog' = Append(elog, "createStartUpdateThread")
  /\ epc' = "param"
  /\ UNCHANGED <<powerLockCount, res, extractRes, archInfo, value, paramMax,
                 workerReadAfterReturn, workerSeen, bar, openRes, headRes, dialogOpen,
                 errorShown, pkgFile, pkgDir, promoted>>
  /\ UNCHANGED <<dialogStep, checkerVars, formatVars, installVars>>

\* lines 146-152
ExtSetParam ==
  /\ epc = "param"
  /\ value' = 0
  /\ paramMax' = Nat64(ParamMax(archInfo))
  /\ epc' = "extract"
  /\ UNCHANGED <<elog, powerLockCount, thid, res, extractRes, archInfo,
                 workerMax, worker, workerReadAfterReturn, workerSeen, bar, openRes,
                 headRes, dialogOpen, errorShown, pkgFile, pkgDir, promoted>>
  /\ UNCHANGED <<dialogStep, checkerVars, formatVars, installVars>>

\* extractArchivePath (line 154) accumulating one chunk through SetProgress;
\* cancelHandler is polled first
ExtExtractProgress ==
  /\ epc = "extract"
  /\ dialogOpen
  /\ value < paramMax
  /\ value' = Min(value + ChunkSize, paramMax)
  /\ pkgDir' = WriteFile(pkgDir, "extracted", "archive", 1)
  /\ UNCHANGED <<epc, elog, powerLockCount, thid, res, extractRes, archInfo,
                 paramMax, workerMax, worker, workerReadAfterReturn, workerSeen, bar,
                 openRes, headRes, dialogOpen, errorShown, pkgFile, promoted>>
  /\ UNCHANGED <<dialogStep, checkerVars, formatVars, installVars>>

\* what extractArchivePath can return now: 1 when every entry is extracted,
\* 0 when cancelHandler reported the dialog gone, an error at any time
ExtractResultsNow ==
  {-1} \cup (IF value = paramMax THEN {1} ELSE {})
       \cup (IF ~dialogOpen THEN {0} ELSE {})

\* lines 154-155: extractArchivePath returns
ExtExtractReturn ==
  /\ epc = "extract"
  /\ \E r \in ExtractResultsNow :
       /\ res' = <<r>>
       /\ extractRes' = <<r>>
       /\ epc' = IF ExtractFailed(r) THEN "xfail_close" ELSE "remove_pkg"
  /\ elog' = Append(elog, "extractArchivePath")
  /\ UNCHANGED <<powerLockCount, thid, archInfo, value, paramMax, workerMax,
                 worker, workerReadAfterReturn, workerSeen, bar, openRes, headRes,
                 dialogOpen, errorShown, pkgFile, pkgDir, promoted>>
  /\ UNCHANGED <<dialogStep, checkerVars, formatVars, installVars>>

\* line 156
ExtExtractFailClose ==
  /\ epc = "xfail_close"
  /\ dialogOpen' = CloseWaitDialog(dialogOpen)
  /\ elog' = Append(elog, "closeWaitDialog")
  /\ epc' = "xfail_step"
  /\ UNCHANGED <<powerLockCount, thid, res, extractRes, archInfo, value,
                 paramMax, workerMax, worker, workerReadAfterReturn, workerSeen, bar,
                 openRes, headRes, errorShown, pkgFile, pkgDir, promoted>>
  /\ UNCHANGED <<dialogStep, checkerVars, formatVars, installVars>>

\* line 157
ExtExtractFailStep ==
  /\ epc = "xfail_step"
  /\ dialogStep' = "CANCELED"
  /\ elog' = Append(elog, "setDialogStep(CANCELED)")
  /\ epc' = "xfail_error"
  /\ UNCHANGED <<powerLockCount, thid, res, extractRes, archInfo, value,
                 paramMax, workerMax, worker, workerReadAfterReturn, workerSeen, bar,
                 openRes, headRes, dialogOpen, errorShown, pkgFile, pkgDir,
                 promoted>>
  /\ UNCHANGED <<checkerVars, formatVars, installVars>>

\* lines 158-159
ExtExtractFailError ==
  /\ epc = "xfail_error"
  /\ errorShown' = res
  /\ elog' = Append(elog, "errorDialog")
  /\ epc' = "exit"
  /\ UNCHANGED <<powerLockCount, thid, res, extractRes, archInfo, value,
                 paramMax, workerMax, worker, workerReadAfterReturn, workerSeen, bar,
                 openRes, headRes, dialogOpen, pkgFile, pkgDir, promoted>>
  /\ UNCHANGED <<dialogStep, checkerVars, formatVars, installVars>>

\* what sceIoRemove can return
SceIoRemoveResults == { -1, 0 }

\* the file after a sceIoRemove that returned r
RemoveFile(exists, r) == IF r < 0 THEN exists ELSE FALSE

\* line 163: sceIoRemove(DUALSHELLCOMMANDER_UPDATE_FILE); the result is
\* discarded
ExtRemoveUpdateFile ==
  /\ epc = "remove_pkg"
  /\ \E r \in SceIoRemoveResults : pkgFile' = RemoveFile(pkgFile, r)
  /\ elog' = Append(elog, "sceIoRemove")
  /\ epc' = "headbin"
  /\ UNCHANGED <<powerLockCount, thid, res, extractRes, archInfo, value,
                 paramMax, workerMax, worker, workerSeen,
                 workerReadAfterReturn, bar, openRes, headRes, dialogOpen,
                 errorShown, pkgDir, promoted>>
  /\ UNCHANGED <<dialogStep, checkerVars, formatVars, installVars>>

\* lines 166-167
ExtMakeHeadBin ==
  /\ epc = "headbin"
  /\ \E r \in MakeHeadBinResults :
       /\ res' = <<r>>
       /\ headRes' = <<r>>
       /\ pkgDir' = MakeHeadBin(pkgDir, r)
       /\ epc' = IF MakeHeadBinFailed(r) THEN "hfail_close" ELSE "bar100"
  /\ elog' = Append(elog, "makeHeadBin")
  /\ UNCHANGED <<powerLockCount, thid, extractRes, archInfo, value, paramMax,
                 workerMax, worker, workerReadAfterReturn, workerSeen, bar, openRes,
                 dialogOpen, errorShown, pkgFile, promoted>>
  /\ UNCHANGED <<dialogStep, checkerVars, formatVars, installVars>>

\* line 168
ExtHeadBinFailClose ==
  /\ epc = "hfail_close"
  /\ dialogOpen' = CloseWaitDialog(dialogOpen)
  /\ elog' = Append(elog, "closeWaitDialog")
  /\ epc' = "hfail_error"
  /\ UNCHANGED <<powerLockCount, thid, res, extractRes, archInfo, value,
                 paramMax, workerMax, worker, workerReadAfterReturn, workerSeen, bar,
                 openRes, headRes, errorShown, pkgFile, pkgDir, promoted>>
  /\ UNCHANGED <<dialogStep, checkerVars, formatVars, installVars>>

\* lines 169-170
ExtHeadBinFailError ==
  /\ epc = "hfail_error"
  /\ errorShown' = res
  /\ elog' = Append(elog, "errorDialog")
  /\ epc' = "exit"
  /\ UNCHANGED <<powerLockCount, thid, res, extractRes, archInfo, value,
                 paramMax, workerMax, worker, workerReadAfterReturn, workerSeen, bar,
                 openRes, headRes, dialogOpen, pkgFile, pkgDir, promoted>>
  /\ UNCHANGED <<dialogStep, checkerVars, formatVars, installVars>>

\* lines 174-175
ExtBarHundred ==
  /\ epc = "bar100"
  /\ bar' = 100
  /\ elog' = Append(elog, "ProgressBarSetValue(100)")
  /\ epc' = "close"
  /\ UNCHANGED <<powerLockCount, thid, res, extractRes, archInfo, value,
                 paramMax, workerMax, worker, workerReadAfterReturn, workerSeen, openRes,
                 headRes, dialogOpen, errorShown, pkgFile, pkgDir, promoted>>
  /\ UNCHANGED <<dialogStep, checkerVars, formatVars, installVars>>

\* line 178
ExtMsgDialogClose ==
  /\ epc = "close"
  /\ dialogOpen' = FALSE
  /\ elog' = Append(elog, "sceMsgDialogClose")
  /\ epc' = "set_extracted"
  /\ UNCHANGED <<powerLockCount, thid, res, extractRes, archInfo, value,
                 paramMax, workerMax, worker, workerReadAfterReturn, workerSeen, bar,
                 openRes, headRes, errorShown, pkgFile, pkgDir, promoted>>
  /\ UNCHANGED <<dialogStep, checkerVars, formatVars, installVars>>

\* line 180
ExtSetExtracted ==
  /\ epc = "set_extracted"
  /\ dialogStep' = "EXTRACTED"
  /\ elog' = Append(elog, "setDialogStep(EXTRACTED)")
  /\ epc' = "exit"
  /\ UNCHANGED <<powerLockCount, thid, res, extractRes, archInfo, value,
                 paramMax, workerMax, worker, workerReadAfterReturn, workerSeen, bar,
                 openRes, headRes, dialogOpen, errorShown, pkgFile, pkgDir,
                 promoted>>
  /\ UNCHANGED <<checkerVars, formatVars, installVars>>

\* lines 182-184: sceKernelWaitThreadEnd returns once the worker has ended
ExtWaitThreadEnd ==
  /\ epc = "exit"
  /\ IF MustWaitThread(thid)
       THEN /\ worker = "ended"
            /\ elog' = Append(elog, "sceKernelWaitThreadEnd")
       ELSE elog' = elog
  /\ epc' = "unlock"
  /\ UNCHANGED <<powerLockCount, thid, res, extractRes, archInfo, value,
                 paramMax, workerMax, worker, workerReadAfterReturn, workerSeen, bar,
                 openRes, headRes, dialogOpen, errorShown, pkgFile, pkgDir,
                 promoted>>
  /\ UNCHANGED <<dialogStep, checkerVars, formatVars, installVars>>

\* line 187
ExtPowerUnlock ==
  /\ epc = "unlock"
  /\ powerLockCount' = powerLockCount - 1
  /\ elog' = Append(elog, "powerUnlock")
  /\ epc' = "return"
  /\ UNCHANGED <<thid, res, extractRes, archInfo, value, paramMax, workerMax,
                 worker, workerReadAfterReturn, workerSeen, bar, openRes, headRes,
                 dialogOpen, errorShown, pkgFile, pkgDir, promoted>>
  /\ UNCHANGED <<dialogStep, checkerVars, formatVars, installVars>>

\* line 189
ExtReturn ==
  /\ epc = "return"
  /\ elog' = Append(elog, "sceKernelExitDeleteThread")
  /\ epc' = "returned"
  /\ UNCHANGED <<powerLockCount, thid, res, extractRes, archInfo, value,
                 paramMax, workerMax, worker, workerReadAfterReturn, workerSeen, bar,
                 openRes, headRes, dialogOpen, errorShown, pkgFile, pkgDir,
                 promoted>>
  /\ UNCHANGED <<dialogStep, checkerVars, formatVars, installVars>>

----------------------------------------------------------------------------
(* The progress-reporting worker started by createStartUpdateThread, and   *)
(* the user: collaborators of update_extract_thread.                       *)

\* the percentages the worker may derive from a counter value: the ratio
\* mapped onto 0..100, and with no maximum a ratio that is not defined
Percentages(v, max) ==
  IF max = 0 THEN {0, 100} ELSE { Min(100, (100 * v) \div max) }

\* the worker has been signaled to stop: the progress dialog is closed
SignaledToStop == ~dialogOpen

\* a round of the worker begins: it reads the shared progress counter
WorkerRead ==
  /\ worker = "running"
  /\ ~SignaledToStop
  /\ workerSeen' = value
  /\ worker' = "pushing"
  /\ workerReadAfterReturn' = (workerReadAfterReturn \/ epc = "returned")
  /\ UNCHANGED <<epc, elog, powerLockCount, thid, res, extractRes, archInfo,
                 value, paramMax, workerMax, bar, openRes, headRes,
                 dialogOpen, errorShown, pkgFile, pkgDir, promoted>>
  /\ UNCHANGED <<dialogStep, checkerVars, formatVars, installVars>>

\* the round ends: the worker pushes the percentage derived from the value
\* it read, which the counter may have left behind by now
WorkerPush ==
  /\ worker = "pushing"
  /\ bar' \in Percentages(workerSeen, workerMax)
  /\ worker' = "running"
  /\ UNCHANGED <<epc, elog, powerLockCount, thid, res, extractRes, archInfo,
                 value, paramMax, workerMax, workerSeen,
                 workerReadAfterReturn, openRes, headRes, dialogOpen,
                 errorShown, pkgFile, pkgDir, promoted>>
  /\ UNCHANGED <<dialogStep, checkerVars, formatVars, installVars>>

\* between two rounds the worker stops once the dialog is closed or the
\* counter reached the maximum
WorkerExit ==
  /\ worker = "running"
  /\ SignaledToStop \/ value >= workerMax
  /\ worker' = "ended"
  /\ workerReadAfterReturn' = (workerReadAfterReturn \/ epc = "returned")
  /\ UNCHANGED <<epc, elog, powerLockCount, thid, res, extractRes, archInfo,
                 value, paramMax, workerMax, workerSeen, bar, openRes,
                 headRes, dialogOpen, errorShown, pkgFile, pkgDir, promoted>>
  /\ UNCHANGED <<dialogStep, checkerVars, formatVars, installVars>>

\* the user cancels the progress dialog while the thread runs
UserCancel ==
  /\ dialogOpen
  /\ epc \notin {"start", "returned"}
  /\ dialogOpen' = FALSE
  /\ UNCHANGED <<epc, elog, powerLockCount, thid, res, extractRes, archInfo,
                 value, paramMax, workerMax, worker, workerReadAfterReturn, workerSeen,
                 bar, openRes, headRes, errorShown, pkgFile, pkgDir, promoted>>
  /\ UNCHANGED <<dialogStep, checkerVars, formatVars, installVars>>

----------------------------------------------------------------------------
(* The version formatting of lines 57-63 applied to every major and minor *)

FormatApply ==
  /\ ~fdone
  /\ fout' = VersionString(fmajor, fminor)
  /\ fdone' = TRUE
  /\ UNCHANGED <<fmajor, fminor>>
  /\ UNCHANGED <<dialogStep, checkerVars, extractVars, installVars>>

----------------------------------------------------------------------------
(* installUpdater (lines 89-106) called on any leftovers, and called again *)

MaxInstallRuns == 2

\* what a prior attempt may have left in PACKAGE_DIR
LeftoverEntries == { <<"leftover", "stale">>, <<"eboot.bin", "stale">>,
                     <<"sce_sys", "dir">>,
                     <<"sce_sys/param.sfo", "updater_param">>,
                     <<"sce_sys/old", "stale">>, <<"head.bin", "stale">>,
                     <<"extracted", "archive">> }

\* a file under sce_sys lies in the directory sce_sys
ConsistentDir(dir) ==
  (\E e \in dir : e[1] \in {"sce_sys/param.sfo", "sce_sys/old"})
     => <<"sce_sys", "dir">> \in dir

\* installUpdater is called
InstallUpdaterCall ==
  /\ epc = "start"
  /\ ipc = "idle"
  /\ installRuns < MaxInstallRuns
  /\ ipc' = "removePath"
  /\ UNCHANGED <<dialogStep, checkerVars, extractVars, formatVars,
                 installRuns, dirAtStart, dirAfterFirst, ilog>>

\* line 106: installUpdater returns
InstallUpdaterReturn ==
  /\ epc = "start"
  /\ ipc = "return"
  /\ ipc' = "idle"
  /\ installRuns' = installRuns + 1
  /\ dirAfterFirst' = IF installRuns = 0 THEN pkgDir ELSE dirAfterFirst
  /\ UNCHANGED <<dialogStep, checkerVars, extractVars, formatVars,
                 dirAtStart, ilog>>

----------------------------------------------------------------------------
(* Specifications *)

CheckerAtStart ==
  /\ cpc = "size"
  /\ version = VersionZero
  /\ version_string = <<>>
  /\ read54 = "unread"
  /\ read70 = "unread"
  /\ read75 = "unread"
  /\ stepAtWrite = "unwritten"
  /\ clog = <<>>
  /\ sizeOut = <<>>
  /\ descRes = <<>>

ExtractAtStart ==
  /\ epc = "start"
  /\ elog = <<>>
  /\ powerLockCount = 0
  /\ thid = -1
  /\ res = <<>>
  /\ extractRes = <<>>
  /\ openRes = <<>>
  /\ headRes = <<>>
  /\ archInfo = Info(0, 0, 0)
  /\ value = 0
  /\ paramMax = 0
  /\ workerMax = 0
  /\ worker = "none"
  /\ workerSeen = 0
  /\ workerReadAfterReturn = FALSE
  /\ dialogOpen = TRUE
  /\ errorShown = <<>>
  /\ pkgFile = TRUE
  /\ promoted = 0

FormatAtStart ==
  /\ fout = <<>>
  /\ fdone = FALSE

InstallAtStart ==
  /\ installRuns = 0
  /\ dirAtStart = pkgDir
  /\ dirAfterFirst = <<>>
  /\ ipc = "idle"
  /\ ilog = <<>>

\* the update checker with the other writers of the Dialog Step
InitCheck ==
  /\ dialogStep = "NONE"
  /\ CheckerAtStart
  /\ remote \in RemoteVersions
  /\ running \in RunningVersions
  /\ ExtractAtStart /\ bar = 0 /\ pkgDir = {}
  /\ FormatAtStart /\ fmajor = 0 /\ fminor = 0
  /\ InstallAtStart

NextCheck ==
  \/ ChkSizeQuery
  \/ ChkDownloadDescriptor
  \/ ChkReadVersion
  \/ ChkReadStep
  \/ ChkCompare
  \/ ChkInitMessageDialog
  \/ ChkSetStep
  \/ ChkPoll
  \/ ChkTestNo
  \/ ChkDownloadPackage
  \/ ChkExit
  \/ OtherSetStep

SpecCheck == InitCheck /\ [][NextCheck]_vars

\* the extraction supervisor with its worker, the user and the other
\* writers of the Dialog Step
InitExtract ==
  /\ dialogStep = "DOWNLOADED"
  /\ CheckerAtStart
  /\ remote = Ver(1, 32, 0)
  /\ running = Ver(1, 0, 0)
  /\ ExtractAtStart
  /\ bar \in {0, 100}
  /\ pkgDir \in PackageDirsAtStart
  /\ FormatAtStart /\ fmajor = 0 /\ fminor = 0
  /\ InstallAtStart

NextExtract ==
  \/ ExtPowerLock
  \/ ExtBarZero
  \/ ExtInstallUpdater
  \/ InstallUpdaterStep
  \/ ExtInstallReturn
  \/ ExtRemovePath
  \/ ExtMkdir
  \/ ExtArchiveOpen
  \/ ExtOpenFailClose
  \/ ExtOpenFailError
  \/ ExtGetArchivePathInfo
  \/ ExtCreateStartUpdateThread
  \/ ExtSetParam
  \/ ExtExtractProgress
  \/ ExtExtractReturn
  \/ ExtExtractFailClose
  \/ ExtExtractFailStep
  \/ ExtExtractFailError
  \/ ExtRemoveUpdateFile
  \/ ExtMakeHeadBin
  \/ ExtHeadBinFailClose
  \/ ExtHeadBinFailError
  \/ ExtBarHundred
  \/ ExtMsgDialogClose
  \/ ExtSetExtracted
  \/ ExtWaitThreadEnd
  \/ ExtPowerUnlock
  \/ ExtReturn
  \/ WorkerRead
  \/ WorkerPush
  \/ WorkerExit
  \/ UserCancel
  \/ OtherSetStep

SpecExtract == InitExtract /\ [][NextExtract]_vars

\* the version formatting on every major and minor
InitFormat ==
  /\ dialogStep = "NONE"
  /\ CheckerAtStart
  /\ remote = Ver(1, 32, 0)
  /\ running = Ver(1, 0, 0)
  /\ ExtractAtStart /\ bar = 0 /\ pkgDir = {}
  /\ FormatAtStart
  /\ InstallAtStart
  /\ fmajor \in 0..ByteMax
  /\ fminor \in 0..ByteMax

NextFormat == FormatApply

SpecFormat == InitFormat /\ [][NextFormat]_vars

\* lines 70-72: the poll loop sleeps 10 ms and looks again, so a step other
\* than UPDATE_QUESTION that stays is seen; the other workers owe nothing
CheckerFairness == WF_vars(ChkPoll)

SpecCheckFair == InitCheck /\ [][NextCheck]_vars /\ CheckerFairness

\* one step of update_extract_thread itself, the archive extraction included
ExtractThreadStep ==
  \/ ExtPowerLock
  \/ ExtBarZero
  \/ ExtInstallUpdater
  \/ InstallUpdaterStep
  \/ ExtInstallReturn
  \/ ExtRemovePath
  \/ ExtMkdir
  \/ ExtArchiveOpen
  \/ ExtOpenFailClose
  \/ ExtOpenFailError
  \/ ExtGetArchivePathInfo
  \/ ExtCreateStartUpdateThread
  \/ ExtSetParam
  \/ ExtExtractProgress
  \/ ExtExtractReturn
  \/ ExtExtractFailClose
  \/ ExtExtractFailStep
  \/ ExtExtractFailError
  \/ ExtRemoveUpdateFile
  \/ ExtMakeHeadBin
  \/ ExtHeadBinFailClose
  \/ ExtHeadBinFailError
  \/ ExtBarHundred
  \/ ExtMsgDialogClose
  \/ ExtSetExtracted
  \/ ExtWaitThreadEnd
  \/ ExtPowerUnlock
  \/ ExtReturn

\* the thread is scheduled while it can run, the worker ends the round it
\* began and stops when it may stop; the user and the other workers owe
\* nothing
WorkerFinishes == WorkerPush \/ WorkerExit

ExtractFairness == WF_vars(ExtractThreadStep) /\ WF_vars(WorkerFinishes)

\* the thread reads nothing of what PACKAGE_DIR holds and nothing of the bar:
\* its termination is checked from an empty directory and a bar at 0
InitExtractFair ==
  /\ InitExtract
  /\ pkgDir = {}
  /\ bar = 0

SpecExtractFair == InitExtractFair /\ [][NextExtract]_vars /\ ExtractFairness

\* installUpdater on every leftover of a prior attempt
InitInstall ==
  /\ dialogStep = "NONE"
  /\ CheckerAtStart
  /\ remote = Ver(1, 32, 0)
  /\ running = Ver(1, 0, 0)
  /\ ExtractAtStart /\ bar = 0
  /\ pkgDir \in {d \in SUBSET LeftoverEntries : ConsistentDir(d)}
  /\ FormatAtStart /\ fmajor = 0 /\ fminor = 0
  /\ InstallAtStart

NextInstall ==
  \/ InstallUpdaterCall
  \/ InstallUpdaterStep
  \/ InstallUpdaterReturn

SpecInstall == InitInstall /\ [][NextInstall]_vars

----------------------------------------------------------------------------
(* Properties *)

Count(seq, e) == Cardinality({i \in 1..Len(seq) : seq[i] = e})

Has(seq, e) == \E i \in 1..Len(seq) : seq[i] = e

\* the position of the first e in seq, 0 when there is none
RECURSIVE IndexFrom(_, _, _)
IndexFrom(seq, e, i) == IF i > Len(seq) THEN 0
                        ELSE IF seq[i] = e THEN i
                        ELSE IndexFrom(seq, e, i + 1)

IndexOf(seq, e) == IndexFrom(seq, e, 1)

OpenFailedRun == openRes # <<>> /\ openRes[1] < 0

ExtractFailedRun == extractRes # <<>> /\ extractRes[1] <= 0

HeadBinFailedRun == headRes # <<>> /\ headRes[1] < 0

FatalRun == OpenFailedRun \/ ExtractFailedRun \/ HeadBinFailedRun

SuccessRun == /\ openRes # <<>> /\ openRes[1] >= 0
              /\ extractRes # <<>> /\ extractRes[1] > 0
              /\ headRes # <<>> /\ headRes[1] >= 0

\* the result code of the failing call of a fatal run
FatalCode == IF OpenFailedRun THEN openRes
             ELSE IF ExtractFailedRun THEN extractRes
             ELSE headRes

\* C1: in every execution of update_extract_thread the power lock is
\* acquired exactly once, as the thread's first call, and released exactly
\* once; the release comes after the wait on the progress-reporting worker
\* (when one was spawned) and is the last call before the thread's exit; the
\* lock is not held after the return and is never released twice.
C1_PowerLockOnce ==
  /\ Count(elog, "powerLock") <= 1
  /\ Count(elog, "powerUnlock") <= 1
  /\ powerLockCount = Count(elog, "powerLock") - Count(elog, "powerUnlock")
  /\ powerLockCount \in {0, 1}
  /\ epc # "start" => elog[1] = "powerLock"
  /\ Has(elog, "powerUnlock") =>
       /\ epc \in {"return", "returned"}
       /\ thid >= 0 =>
            /\ worker = "ended"
            /\ IndexOf(elog, "sceKernelWaitThreadEnd") + 1
                 = IndexOf(elog, "powerUnlock")
  /\ epc = "returned" =>
       /\ Count(elog, "powerLock") = 1
       /\ Count(elog, "powerUnlock") = 1
       /\ powerLockCount = 0
       /\ elog[Len(elog) - 1] = "powerUnlock"
       /\ elog[Len(elog)] = "sceKernelExitDeleteThread"

\* an archive-open failure that has returned with the lock released
C1_Witness ==
  /\ epc = "returned"
  /\ OpenFailedRun
  /\ powerLockCount = 0
  /\ Count(elog, "powerUnlock") = 1

\* C2: whenever createStartUpdateThread returned a valid id, the worker has
\* ended before update_extract_thread releases the lock and returns, on every
\* path; the worker never reads the progress counter after the return.
C2_WorkerJoined ==
  /\ (epc \in {"unlock", "return", "returned"} /\ thid >= 0)
       => worker = "ended"
  /\ thid >= 0 <=> worker # "none"
  /\ ~workerReadAfterReturn

\* a manifest failure that has returned with its worker ended
C2_Witness ==
  /\ epc = "returned"
  /\ HeadBinFailedRun
  /\ thid = 0
  /\ worker = "ended"

\* C3 as stated: on every fatal outcome the error dialog shows the result
\* code and update_extract_thread has set the Dialog Step to CANCELED before
\* it returns.
C3_Original ==
  (epc = "returned" /\ FatalRun) =>
     /\ errorShown = FatalCode
     /\ Has(elog, "setDialogStep(CANCELED)")

\* C3 amended: on every fatal outcome errorDialog was called with the result
\* code before the return; update_extract_thread sets the Dialog Step to
\* CANCELED exactly on the extractArchivePath <= 0 outcome, right before
\* errorDialog, and writes no Dialog Step at all on the archiveOpen and
\* makeHeadBin failures.
C3_FatalOutcome ==
  (epc = "returned" /\ FatalRun) =>
     /\ errorShown = FatalCode
     /\ Count(elog, "errorDialog") = 1
     /\ Has(elog, "setDialogStep(CANCELED)") <=> ExtractFailedRun
     /\ ExtractFailedRun =>
          IndexOf(elog, "setDialogStep(CANCELED)") + 1
            = IndexOf(elog, "errorDialog")
     /\ ~Has(elog, "setDialogStep(EXTRACTED)")

\* a cancelled extraction (result 0) that has returned
C3_Witness ==
  /\ epc = "returned"
  /\ extractRes = <<0>>
  /\ errorShown = <<0>>
  /\ Has(elog, "setDialogStep(CANCELED)")

\* the descriptor was downloaded and read, and line 54 read NONE
DescriptorReadAndIdle == Has(clog, "ReadFile") /\ read54 = "NONE"

\* C4: with the descriptor downloaded and read and the Dialog Step NONE at
\* line 54, network_update_thread goes on to the prompt and sets the Dialog
\* Step to UPDATE_QUESTION if and only if the remote version is strictly
\* greater (as unsigned 32-bit) than the running one; otherwise it exits
\* without showing the prompt and without writing the Dialog Step.
C4_OfferIffNewer ==
  (DescriptorReadAndIdle /\ cpc # "compare") =>
     IF remote[1] > running[1]
          \/ (remote[1] = running[1] /\ remote[2] > running[2])
       THEN /\ Has(clog, "initMessageDialog") \/ cpc = "prompt"
            /\ Has(clog, "setDialogStep") \/ cpc \in {"prompt", "set_step"}
            /\ cpc = "done" => Has(clog, "setDialogStep")
       ELSE /\ cpc \in {"exit", "done"}
            /\ ~Has(clog, "initMessageDialog")
            /\ ~Has(clog, "setDialogStep")
            /\ ~Has(clog, "downloadFileProcess")
            /\ ~Has(clog, "downloadFileProcess failed")
            /\ stepAtWrite = "unwritten"

\* the prompt is up for a newer remote version
C4_Witness ==
  /\ DescriptorReadAndIdle
  /\ remote = Ver(1, 0, 1)
  /\ running = Ver(1, 0, 0)
  /\ cpc = "wait"
  /\ stepAtWrite = "NONE"
  /\ dialogStep = "UPDATE_QUESTION"

\* C5: when line 54 reads a Dialog Step other than NONE, network_update_thread
\* exits without showing the prompt, without starting the package download
\* and without ever writing the Dialog Step.
C5_BusyDialogLeftAlone ==
  read54 \notin {"unread", "NONE"} =>
     /\ cpc \in {"exit", "done"}
     /\ ~Has(clog, "initMessageDialog")
     /\ ~Has(clog, "setDialogStep")
     /\ ~Has(clog, "downloadFileProcess")
     /\ ~Has(clog, "downloadFileProcess failed")
     /\ stepAtWrite = "unwritten"

\* the checker has exited on a running dialog, for a newer remote version
C5_Witness ==
  /\ read54 = "OTHER"
  /\ cpc = "done"
  /\ version = Ver(255, 255, 65535)
  /\ dialogStep = "OTHER"

\* C6 as stated: when line 67 writes UPDATE_QUESTION the Dialog Step is still
\* NONE, under every interleaving with the other writers.
C6_NeverInterrupts == stepAtWrite \in {"unwritten", "NONE"}

\* the version string the claim describes: MAJOR.MINOR with the last minor
\* digit dropped exactly when it is 0
DescribedVersionString(major, minor) ==
  LET full == HexNoPad(major) \o <<".">> \o HexTwo(minor)
  IN  IF full[Len(full)] = "0" THEN SubSeq(full, 1, Len(full) - 1) ELSE full

\* C7 as stated: for every major and minor in 0..255 the string built by
\* lines 57-63 is MAJOR.MINOR with the trailing minor digit removed exactly
\* when it is 0, and no other character removed.
C7_VersionString ==
  fdone => fout = DescribedVersionString(fmajor, fminor)

\* C8: when archiveOpen, extractArchivePath and the makeHeadBin of line 166
\* all succeed, update_extract_thread sets the progress to 100, then closes
\* the dialog, then sets the Dialog Step to EXTRACTED, in that order; and it
\* writes EXTRACTED only in that case.
C8_SuccessOrder ==
  /\ (SuccessRun /\ epc \in {"exit", "unlock", "return", "returned"}) =>
       /\ Count(elog, "setDialogStep(EXTRACTED)") = 1
       /\ IndexOf(elog, "ProgressBarSetValue(100)") > 0
       /\ IndexOf(elog, "sceMsgDialogClose")
            = IndexOf(elog, "ProgressBarSetValue(100)") + 1
       /\ IndexOf(elog, "setDialogStep(EXTRACTED)")
            = IndexOf(elog, "sceMsgDialogClose") + 1
  /\ Has(elog, "setDialogStep(EXTRACTED)") => SuccessRun

\* the spec's example run, extracted to its maximum of 1200
C8_Witness ==
  /\ epc = "returned"
  /\ archInfo = Info(1000, 2, 5)
  /\ value = 1200
  /\ Has(elog, "setDialogStep(EXTRACTED)")
  /\ bar = 100

\* C9 as stated: from the reset of line 115 on, the percentage shown is
\* within 0..100, and 100 is shown only after extractArchivePath returned a
\* positive result, never on a run where the extraction failed or was
\* cancelled.
C9_Original ==
  epc \notin {"start", "bar0"} =>
     /\ bar \in 0..100
     /\ bar = 100 => (extractRes # <<>> /\ extractRes[1] > 0)

\* C9: from the reset of line 115 on, the percentage shown is within 0..100;
\* update_extract_thread itself pushes 100 only after extractArchivePath
\* returned a positive result and makeHeadBin succeeded; a 100 it did not
\* push comes from the worker, once the counter has reached the maximum the
\* worker was given, which can be before extractArchivePath returns.
C9_PercentageBounded ==
  epc \notin {"start", "bar0"} =>
     /\ bar \in 0..100
     /\ Has(elog, "ProgressBarSetValue(100)") =>
          /\ extractRes # <<>> /\ extractRes[1] > 0
          /\ headRes # <<>> /\ headRes[1] >= 0
     /\ (bar = 100 /\ ~Has(elog, "ProgressBarSetValue(100)")) =>
          /\ worker # "none"
          /\ value = workerMax

\* the worker shows 100 while extractArchivePath has not returned
C9_Witness ==
  /\ epc = "extract"
  /\ extractRes = <<>>
  /\ workerMax = 1200
  /\ value = workerMax
  /\ workerSeen = value
  /\ bar = 100
  /\ ~Has(elog, "ProgressBarSetValue(100)")

\* a * d with no bit lost, as three limbs
MulExact(a, d) ==
  LET lo == a[2] * d
      hi == a[1] * d + lo \div LimbBase
  IN  <<hi \div LimbBase, hi % LimbBase, lo % LimbBase>>

\* s + p with no bit lost, as five limbs
AddExact(s, p) ==
  LET l0 == s[4] + p[3]
      l1 == s[3] + p[2] + l0 \div LimbBase
      l2 == s[2] + p[1] + l1 \div LimbBase
      l3 == s[1] + l2 \div LimbBase
  IN  <<l3 \div LimbBase, l3 % LimbBase, l2 % LimbBase, l1 % LimbBase,
        l0 % LimbBase>>

\* total_bytes + directory_count * DIRECTORY_SIZE as a number
ExactMax(info) == AddExact(info[1], MulExact(info[2], DIRECTORY_SIZE))

\* C10: the maximum handed to createStartUpdateThread and param.max are the
\* same value, size + folders * DIRECTORY_SIZE of getArchivePathInfo; the
\* file count does not contribute.
C10_ProgressMax ==
  (Has(elog, "createStartUpdateThread") /\ epc # "param") =>
     /\ workerMax = paramMax
     /\ <<0>> \o U64(paramMax) = ExactMax(archInfo)

\* size=1000, folders=2, files=5 with the weight 100 gives 1200
C10_Witness ==
  /\ epc = "extract"
  /\ archInfo = Info(1000, 2, 5)
  /\ workerMax = 1200
  /\ paramMax = 1200

\* C12: when line 75 reads NONE after the prompt (the user declined),
\* network_update_thread exits without starting the package download and
\* without writing the Dialog Step again; it never signals DOWNLOADED.
C12_DeclinedNoDownload ==
  read75 = "NONE" =>
     /\ cpc \in {"exit", "done"}
     /\ ~Has(clog, "downloadFileProcess")
     /\ ~Has(clog, "downloadFileProcess failed")
     /\ Count(clog, "setDialogStep") = 1
     /\ Has(clog, "initMessageDialog")

\* the checker has exited on a declined prompt
C12_Witness ==
  /\ read75 = "NONE"
  /\ read70 = "NONE"
  /\ cpc = "done"
  /\ dialogStep = "NONE"
  /\ stepAtWrite = "NONE"

\* the package download was started by line 80
DownloadStarted == Has(clog, "downloadFileProcess")
                     \/ Has(clog, "downloadFileProcess failed")

\* C13 as stated: under every interleaving, when the package download is
\* started the step values the decision rests on (the one that ended the
\* wait loop of line 70 and the one tested at line 75) are neither NONE nor
\* UPDATE_QUESTION, i.e. the download starts only when the user accepted.
C13_DownloadOnlyOnAccept ==
  (cpc = "download_pkg" \/ DownloadStarted) =>
     /\ read70 \notin {"NONE", "UPDATE_QUESTION"}
     /\ read75 \notin {"NONE", "UPDATE_QUESTION"}

\* the size query failed or reported a size other than 4 bytes
SizeCheckFailedRun == sizeOut # <<>> /\ ~(sizeOut[1] >= 0 /\ sizeOut[2] = 4)

\* the descriptor download returned a non-positive result
DescriptorFailedRun == descRes # <<>> /\ descRes[1] <= 0

\* C14: when the size query fails, the size is not exactly 4 bytes, or the
\* descriptor download returns a non-positive result, network_update_thread
\* exits without reading or writing the Dialog Step, without the prompt and
\* without the package download; a failed size check attempts no descriptor
\* download at all.
C14_SoftSkip ==
  /\ (SizeCheckFailedRun \/ DescriptorFailedRun) =>
       /\ cpc \in {"exit", "done"}
       /\ read54 = "unread"
       /\ ~Has(clog, "getDialogStep")
       /\ ~Has(clog, "ReadFile")
       /\ ~Has(clog, "initMessageDialog")
       /\ ~Has(clog, "setDialogStep")
       /\ ~DownloadStarted
       /\ stepAtWrite = "unwritten"
  /\ SizeCheckFailedRun =>
       /\ ~Has(clog, "downloadFile")
       /\ descRes = <<>>

\* the checker has exited on an empty descriptor download
C14_Witness ==
  /\ sizeOut = <<0, 4>>
  /\ descRes = <<0>>
  /\ cpc = "done"
  /\ clog = <<"getDownloadFileSize", "downloadFile",
              "sceKernelExitDeleteThread">>

\* the calls of update_extract_thread up to the failing archiveOpen
CallsUntilOpen == <<"powerLock", "ProgressBarSetValue(0)", "installUpdater",
                    "removePath", "archiveOpen">>

\* C15: when extractArchivePath returns a non-positive result,
\* update_extract_thread closes the wait dialog, sets the Dialog Step to
\* CANCELED, calls errorDialog with that result and goes to the cleanup: the
\* package file is not deleted, makeHeadBin is not re-run, the progress is
\* not set to 100 and EXTRACTED is never set on that run.
C15_ExtractionFailure ==
  ExtractFailedRun =>
     /\ pkgFile
     /\ ~Has(elog, "sceIoRemove")
     /\ ~Has(elog, "makeHeadBin")
     /\ ~Has(elog, "ProgressBarSetValue(100)")
     /\ ~Has(elog, "sceMsgDialogClose")
     /\ ~Has(elog, "setDialogStep(EXTRACTED)")
     /\ headRes = <<>>
     /\ epc \in {"xfail_close", "xfail_step", "xfail_error", "exit", "unlock",
                 "return", "returned"}
     /\ epc \in {"exit", "unlock", "return", "returned"} =>
          LET i == IndexOf(elog, "extractArchivePath")
          IN  /\ SubSeq(elog, i + 1, i + 3)
                   = <<"closeWaitDialog", "setDialogStep(CANCELED)",
                       "errorDialog">>
              /\ errorShown = extractRes
              /\ ~dialogOpen

\* a failed extraction (result -1) that has returned with the package kept
C15_Witness ==
  /\ epc = "returned"
  /\ extractRes = <<-1>>
  /\ errorShown = <<-1>>
  /\ value = 400
  /\ pkgFile

\* C16: when archiveOpen fails, update_extract_thread closes the dialog,
\* calls errorDialog and goes to the cleanup without getArchivePathInfo,
\* without spawning the worker, without extractArchivePath and without
\* waiting on a worker; the power lock is still released.
C16_OpenFailure ==
  OpenFailedRun =>
     /\ ~Has(elog, "getArchivePathInfo")
     /\ ~Has(elog, "createStartUpdateThread")
     /\ ~Has(elog, "extractArchivePath")
     /\ ~Has(elog, "sceKernelWaitThreadEnd")
     /\ thid = -1
     /\ worker = "none"
     /\ extractRes = <<>>
     /\ epc \in {"ofail_close", "ofail_error", "exit", "unlock", "return",
                 "returned"}
     /\ epc = "returned" =>
          /\ elog = CallsUntilOpen \o <<"closeWaitDialog", "errorDialog",
                                        "powerUnlock",
                                        "sceKernelExitDeleteThread">>
          /\ errorShown = openRes
          /\ powerLockCount = 0
          /\ ~dialogOpen

\* an archive-open failure that has returned after its error dialog
C16_Witness ==
  /\ epc = "returned"
  /\ openRes = <<-1>>
  /\ errorShown = <<-1>>
  /\ Has(elog, "powerUnlock")
  /\ worker = "none"

\* C18: update_extract_thread deletes the downloaded package file only on
\* runs where extractArchivePath returned a positive result, and before the
\* makeHeadBin of line 166; the archive-open and extraction failures leave
\* the file in place; on a makeHeadBin failure the file is gone and the
\* thread has not set EXTRACTED.
C18_PackageFileRemoval ==
  /\ ~pkgFile => (extractRes # <<>> /\ extractRes[1] > 0
                    /\ Has(elog, "sceIoRemove"))
  /\ Has(elog, "sceIoRemove") =>
       /\ ~pkgFile
       /\ IndexOf(elog, "sceIoRemove") = IndexOf(elog, "extractArchivePath") + 1
  /\ Has(elog, "makeHeadBin") =>
       IndexOf(elog, "makeHeadBin") = IndexOf(elog, "sceIoRemove") + 1
  /\ (OpenFailedRun \/ ExtractFailedRun) => pkgFile
  /\ HeadBinFailedRun =>
       /\ ~pkgFile
       /\ ~Has(elog, "setDialogStep(EXTRACTED)")
       /\ ~Has(elog, "setDialogStep(CANCELED)")

\* a makeHeadBin failure that has returned: package gone, no EXTRACTED
C18_Witness ==
  /\ epc = "returned"
  /\ headRes = <<-1>>
  /\ ~pkgFile
  /\ ~Has(elog, "setDialogStep(EXTRACTED)")
  /\ errorShown = <<-1>>

\* the staged updater package: the two blobs, the manifest, the directory
StagedUpdater == { <<"sce_sys", "dir">>, <<"eboot.bin", "updater_eboot">>,
                   <<"sce_sys/param.sfo", "updater_param">>,
                   <<"head.bin", "head">> }

\* C11: installUpdater is idempotent: from any contents of the package
\* directory, leftovers of a prior attempt included, a second run leaves the
\* same staged files as the first, which are eboot.bin, sce_sys/param.sfo
\* and head.bin alone, because every run clears the directory before writing.
C11_InstallIdempotent ==
  (ipc = "idle" /\ installRuns >= 1) =>
     /\ dirAfterFirst = StagedUpdater
     /\ pkgDir = dirAfterFirst

\* C17: update_extract_thread runs installUpdater exactly once, promotion
\* included, before the archive is opened, and clears and recreates the
\* package directory again after it, so the directory is empty when the
\* archive is opened and the extraction starts; the calls follow the order
\* prepare, install updater, open, count, extract, finalize.
C17_StageOrder ==
  /\ Count(elog, "installUpdater") <= 1
  /\ Len(elog) >= 5 => SubSeq(elog, 1, 5) = CallsUntilOpen
  /\ Has(elog, "archiveOpen") => promoted = 1
  /\ epc \in {"mkdir", "open", "info", "spawn", "param"} => pkgDir = {}
  /\ Has(elog, "archiveOpen") =>
       ilog = <<"removePath", "sceIoMkdir", "sceIoMkdir", "WriteFile",
                "WriteFile", "makeHeadBin", "promoteApp">>
  /\ epc = "extract" =>
       /\ \A e \in pkgDir : e[1] \notin UpdaterFiles
       /\ value = 0 => pkgDir = {}
  /\ Has(elog, "extractArchivePath") =>
       SubSeq(elog, 6, 8) = <<"getArchivePathInfo", "createStartUpdateThread",
                              "extractArchivePath">>
  /\ Has(elog, "makeHeadBin") =>
       SubSeq(elog, 9, 10) = <<"sceIoRemove", "makeHeadBin">>

\* the extraction is about to start on an empty directory that held leftovers
C17_Witness ==
  /\ epc = "extract"
  /\ value = 0
  /\ pkgDir = {}
  /\ promoted = 1
  /\ archInfo = Info(1000, 2, 5)

\* C19: once it has set Dialog Step to UPDATE_QUESTION, network_update_thread
\* leaves its poll loop only in a state whose step is not UPDATE_QUESTION;
\* with the loop scheduled fairly it leaves once the step holds another value
\* for good; and while the step stays UPDATE_QUESTION forever it stays in the
\* loop forever, neither exiting nor downloading.
C19_WaitLoop ==
  /\ [][(cpc = "wait" /\ cpc' # "wait") => dialogStep # "UPDATE_QUESTION"]_vars
  /\ [](cpc = "wait" => (<>(cpc # "wait") \/ []<>(dialogStep = "UPDATE_QUESTION")))
  /\ []((cpc = "wait" /\ [](dialogStep = "UPDATE_QUESTION"))
          => [](cpc = "wait" /\ ~DownloadStarted))

\* the loop was left on a value another worker wrote
C19_Witness ==
  /\ cpc = "test_no"
  /\ read70 = "OTHER"
  /\ stepAtWrite = "NONE"
  /\ Has(clog, "setDialogStep")

\* C20: update_extract_thread always returns when it and a progress worker
\* that stops once the dialog is closed or the counter is at the maximum are
\* scheduled fairly: whenever it reaches the join with a worker spawned, the
\* progress dialog was closed by closeWaitDialog or sceMsgDialogClose, so the
\* worker ends and the join is passed.
C20_Terminates ==
  /\ []((epc = "exit" /\ MustWaitThread(thid)) =>
          /\ ~dialogOpen
          /\ Has(elog, "closeWaitDialog") \/ Has(elog, "sceMsgDialogClose"))
  /\ <>(epc = "returned" /\ powerLockCount = 0)

\* the thread returned after a failed extraction with a worker to join that
\* had work left
C20_Witness ==
  /\ epc = "returned"
  /\ thid = 0
  /\ worker = "ended"
  /\ extractRes = <<-1>>
  /\ value < workerMax
  /\ Has(elog, "sceKernelWaitThreadEnd")

====
